---------------------------- MODULE Spec2Model ----------------------------
(***************************************************************************)
(* Model of two command families of the repository:                        *)
(*   - applyCommand (packages/create-cloudflare/templates/solid/c3.ts):    *)
(*     diff declared container applications against the live ones, build   *)
(*     the create/modify action list, confirm, apply sequentially.         *)
(*   - the R2 lifecycle handlers (packages/wrangler/src/r2/lifecycle.ts):  *)
(*     RemoveHandler and SetHandler as fetch / mutate / put invocations,   *)
(*     AddHandler as its sequence of prompts followed by the put.          *)
(* Spec is the specification of applyCommand, LifecycleSpec the one of     *)
(* RemoveHandler and SetHandler, AddSpec the one of AddHandler, SortSpec   *)
(* the one of sortObjectDeeply applied to a structure; each leaves the     *)
(* variables of the others untouched.                                      *)
(***************************************************************************)
EXTENDS Integers, Sequences, FiniteSets

VARIABLES
    \* ---- applyCommand ----
    pc,                 \* position of applyCommand
    json,               \* args.json
    config,             \* config.container_app, the declared entries
    remote,             \* applications held by the remote service
    nextId,             \* next id the remote service assigns
    applications,       \* result of listApplications
    applicationByNames, \* the name -> application object built from it
    i,                  \* number of declared entries the diff loop has done
    actions,            \* the action list
    origin,             \* history: origin[k] is the declared index that pushed actions[k]
    status,             \* updateStatus lines of the diff loop, one per entry
    yes,                \* the confirmation's result
    prompts,            \* number of confirmation prompts shown
    listCalls,          \* number of listApplications calls issued
    calls,              \* create/modify calls issued, with their outcome
    a,                  \* number of actions the apply loop has completed
    \* ---- lifecycle handlers ----
    rules,              \* lifecycle rules held by the remote bucket
    lpc,                \* position of each invocation
    lcmd,               \* command of each invocation
    largs,              \* arguments of each invocation
    lrules,             \* lifecycleRules, the local list of an invocation
    lfetched,           \* history: the list getLifecycleRules returned to it
    lerr,               \* error an invocation ended with
    lprompts,           \* confirmation prompts an invocation has shown
    puts,               \* putLifecycleRules calls, in the order issued
    \* ---- AddHandler ----
    ltty,               \* process.stdin.isTTY of each invocation
    lnewRule,           \* newRule
    lselected,          \* selectedActions
    lloop,              \* number of selected actions the loop has done
    lanswers,           \* history: the accepted condition input of each of them
    \* ---- sortObjectDeeply ----
    sortPc,             \* how often sortObjectDeeply has been applied
    sortArg,            \* the structure passed, as it is after the call
    sortArg0,           \* history: the structure as it was passed
    sortResult,         \* sortObjectDeeply(x)
    sortTwice           \* sortObjectDeeply(sortObjectDeeply(x))

applyVars == <<pc, json, config, remote, nextId, applications, applicationByNames,
               i, actions, origin, status, yes, prompts, listCalls, calls, a>>
lifecycleVars == <<rules, lpc, lcmd, largs, lrules, lfetched, lerr, lprompts, puts>>
addVars == <<ltty, lnewRule, lselected, lloop, lanswers>>
sortVars == <<sortPc, sortArg, sortArg0, sortResult, sortTwice>>
vars == <<applyVars, lifecycleVars, addVars, sortVars>>

(***************************************************************************)
(* Bounds.                                                                 *)
(***************************************************************************)
MaxDeclared == 2
MaxRemote == 2
MaxRules == 2

(***************************************************************************)
(* JavaScript values.  Every value is a record [t, s, n, kv]: t the type   *)
(* tag, s the text of a string, n the number (or 1/0 for a boolean), kv    *)
(* the own enumerable properties of an object in enumeration order (k the  *)
(* key, v the value) or the elements of an array (k = "").                 *)
(***************************************************************************)
Undef == [t |-> "undefined", s |-> "", n |-> 0, kv |-> <<>>]
Null == [t |-> "null", s |-> "", n |-> 0, kv |-> <<>>]
Str(x) == [t |-> "string", s |-> x, n |-> 0, kv |-> <<>>]
Num(x) == [t |-> "number", s |-> "", n |-> x, kv |-> <<>>]
Bool(b) == [t |-> "boolean", s |-> "", n |-> IF b THEN 1 ELSE 0, kv |-> <<>>]
Obj(props) == [t |-> "object", s |-> "", n |-> 0, kv |-> props]
Arr(elems) == [t |-> "array", s |-> "", n |-> 0,
               kv |-> [j \in 1..Len(elems) |-> [k |-> "", v |-> elems[j]]]]
P(key, val) == [k |-> key, v |-> val]

\* A TypeError thrown while evaluating an expression, as a value.
TypeError == [t |-> "TypeError", s |-> "", n |-> 0, kv |-> <<>>]

HasKey(o, key) == \E j \in 1..Len(o.kv) : o.kv[j].k = key

\* o[key] / o.key on an own property; undefined when the key is absent.
Get(o, key) ==
    IF HasKey(o, key)
    THEN o.kv[CHOOSE j \in 1..Len(o.kv) : o.kv[j].k = key].v
    ELSE Undef

\* o[key] = val: an existing key keeps its place, a new one goes last.
Put(o, key, val) ==
    IF HasKey(o, key)
    THEN Obj([j \in 1..Len(o.kv) |->
                IF o.kv[j].k = key THEN P(key, val) ELSE o.kv[j]])
    ELSE Obj(Append(o.kv, P(key, val)))

\* JavaScript truthiness, as `x ? a : b` evaluates it.
Truthy(x) ==
    CASE x.t = "undefined" -> FALSE
      [] x.t = "null" -> FALSE
      [] x.t = "boolean" -> x.n = 1
      [] x.t = "number" -> x.n # 0
      [] x.t = "string" -> x.s # ""
      [] OTHER -> TRUE

\* typeof x === "object"
TypeofObject(x) == x.t \in {"object", "array", "null"}

(***************************************************************************)
(* Keys are compared as Array.prototype.sort() compares strings: by code   *)
(* unit.  KeyAlphabet lists the keys of the model in that order.           *)
(***************************************************************************)
KeyAlphabet == <<"affinities", "configuration", "constraints", "created_at",
                 "id", "image", "instances", "jobs", "name",
                 "scheduling_policy", "tier">>
Rank(key) == CHOOSE r \in 1..Len(KeyAlphabet) : KeyAlphabet[r] = key
KeyLess(x, y) == Rank(x) < Rank(y)

-----------------------------------------------------------------------------
(***************************************************************************)
(* Pure functions of c3.ts.                                                *)
(***************************************************************************)

applicationToCreateApplication(application) ==
    Obj(<< P("configuration", Get(application, "configuration")),
           P("constraints", Get(application, "constraints")),
           P("name", Get(application, "name")),
           P("scheduling_policy", Get(application, "scheduling_policy")),
           P("affinities", Get(application, "affinities")),
           P("instances", Get(application, "instances")),
           P("jobs", IF Truthy(Get(application, "jobs")) THEN Bool(TRUE) ELSE Undef) >>)

\* Deletes the own keys whose value is undefined, at the top level only.
stripUndefined(r) ==
    Obj(SelectSeq(r.kv, LAMBDA e : e.v.t # "undefined"))

\* Insertion of one property into a key-sorted property list.
RECURSIVE InsertByKey(_, _)
InsertByKey(e, sorted) ==
    IF sorted = <<>> THEN <<e>>
    ELSE IF KeyLess(e.k, Head(sorted).k) THEN <<e>> \o sorted
    ELSE <<Head(sorted)>> \o InsertByKey(e, Tail(sorted))

RECURSIVE SortProps(_)
SortProps(props) ==
    IF props = <<>> THEN <<>>
    ELSE InsertByKey(Head(props), SortProps(Tail(props)))

\* order(): an array is returned as is, an object rebuilt with sorted keys.
order(unordered) ==
    IF unordered.t = "array" THEN unordered
    ELSE Obj(SortProps(unordered.kv))

RECURSIVE sortObjectDeeply(_)
sortObjectDeeply(object) ==
    IF ~TypeofObject(object) THEN object
    ELSE IF object.t = "array" THEN
        LET mapped == [j \in 1..Len(object.kv) |->
                          P("", sortObjectDeeply(object.kv[j].v))]
        IN IF \E j \in 1..Len(mapped) : mapped[j].v = TypeError
           THEN TypeError
           ELSE [object EXCEPT !.kv = mapped]
    ELSE IF object.t = "null" THEN TypeError   \* Object.entries(null) throws
    ELSE
        LET copied == [j \in 1..Len(object.kv) |->
                          IF TypeofObject(object.kv[j].v) /\ object.kv[j].v.t # "null"
                          THEN P(object.kv[j].k, sortObjectDeeply(object.kv[j].v))
                          ELSE object.kv[j]]
        IN IF \E j \in 1..Len(copied) : copied[j].v = TypeError
           THEN TypeError
           ELSE order(Obj(copied))

(***************************************************************************)
(* TOML.stringify, as applyCommand uses it: the lines of the document.  A  *)
(* line is [sec, k, v]: a key/value line of table sec, or with k = "" the  *)
(* header of table sec.  Keys whose value is undefined or null produce no  *)
(* line; scalar keys of a table come before its sub-tables.  A table gets  *)
(* its header when it has an inline key, printed or not; an empty table is *)
(* itself inline.  The indentation of a sub-table follows from the header  *)
(* of its parent and is not kept.                                          *)
(***************************************************************************)
IsTable(x) == x.t = "object"
IsInline(x) ==
    CASE x.t = "array" -> Len(x.kv) = 0 \/ ~IsTable(x.kv[1].v)
      [] x.t = "object" -> Len(x.kv) = 0
      [] OTHER -> TRUE

RECURSIVE stringifyObject(_, _)
RECURSIVE stringifyComplex(_, _)
RECURSIVE stringifyTables(_, _)
stringifyObject(sec, obj) ==
    LET inlineKeys == SelectSeq(obj.kv, LAMBDA e :
                         IsInline(e.v) /\ e.v.t \notin {"undefined", "null"})
        complexKeys == SelectSeq(obj.kv, LAMBDA e : ~IsInline(e.v))
    IN [j \in 1..Len(inlineKeys) |->
           [sec |-> sec, k |-> inlineKeys[j].k, v |-> inlineKeys[j].v]]
       \o stringifyComplex(sec, complexKeys)

stringifyComplex(sec, props) ==
    IF props = <<>> THEN <<>>
    ELSE LET e == Head(props)
             sub == Append(sec, e.k)
         IN (IF e.v.t = "array"
             THEN stringifyTables(sub, e.v.kv)
             ELSE (IF \E j \in 1..Len(e.v.kv) : IsInline(e.v.kv[j].v)
                   THEN <<[sec |-> sub, k |-> "", v |-> Str("[]")]>>
                   ELSE <<>>)
                  \o stringifyObject(sub, e.v))
            \o stringifyComplex(sec, Tail(props))

stringifyTables(sec, elems) ==
    IF elems = <<>> THEN <<>>
    ELSE <<[sec |-> sec, k |-> "", v |-> Str("[[]]")]>>
         \o stringifyObject(sec, Head(elems).v)
         \o stringifyTables(sec, Tail(elems))

TOMLstringify(obj) == stringifyObject(<<>>, obj)

\* Diff.diffLines(prev, now) has an added or removed part iff the texts differ.
HasChanges(prev, now) == prev # now


-----------------------------------------------------------------------------
(***************************************************************************)
(* applyCommand: the declared entries and live applications of the model.  *)
(***************************************************************************)
Image1 == Obj(<<P("image", Str("i1"))>>)

\* Entries of config.container_app, with the key order of the file: one that
\* lists its keys unsorted and holds an undefined-valued key, one that differs
\* from it in a field, one with jobs = false, one named like a key of
\* Object.prototype whose configuration holds nothing but an undefined-valued
\* key.
DeclaredApps ==
    { Obj(<<P("name", Str("a")), P("instances", Num(1)), P("configuration", Image1),
            P("scheduling_policy", Undef)>>),
      Obj(<<P("name", Str("a")), P("instances", Num(2)), P("configuration", Image1)>>),
      Obj(<<P("name", Str("b")), P("instances", Num(1)), P("jobs", Bool(FALSE))>>),
      Obj(<<P("name", Str("constructor")), P("instances", Num(1)),
            P("configuration", Obj(<<P("image", Undef)>>))>>) }

\* Applications as the service holds them, before it adds the id.
LiveApps ==
    { Obj(<<P("name", Str("a")), P("configuration", Image1), P("instances", Num(1)),
            P("created_at", Str("t0"))>>),
      Obj(<<P("name", Str("b")), P("instances", Num(1)), P("jobs", Bool(FALSE))>>),
      Obj(<<P("name", Str("constructor")), P("instances", Num(1)),
            P("configuration", Obj(<<>>))>>) }

SeqsUpTo(S, n) == UNION { [1..m -> S] : m \in 0..n }

\* The id the service assigns to its n-th application.
IdOf(n) == [t |-> "string", s |-> "id", n |-> n, kv |-> <<>>]
WithId(app, n) == Obj(<<P("id", IdOf(n))>> \o app.kv)

\* The request body as sent: JSON.stringify leaves out undefined-valued keys.
RECURSIVE JSONBody(_)
JSONBody(x) ==
    IF x.t \in {"object", "array"}
    THEN [x EXCEPT !.kv =
            LET kept == SelectSeq(x.kv, LAMBDA e : x.t = "array" \/ e.v.t # "undefined")
            IN [j \in 1..Len(kept) |-> P(kept[j].k, JSONBody(kept[j].v))]]
    ELSE x

\* The service's effect of createApplication(spec).
RemoteCreate(store, spec, n) == Append(store, WithId(JSONBody(spec), n))

\* The service's effect of modifyApplication(id, body).
RemoteModify(store, id, body) ==
    [j \in 1..Len(store) |->
        IF Get(store[j], "id") = id
        THEN Obj(<<P("id", id)>> \o JSONBody(body).kv)
        ELSE store[j]]

RemoteHasId(store, id) == \E j \in 1..Len(store) : Get(store[j], "id") = id

(***************************************************************************)
(* applicationByNames is a plain object ({}): a read of a key it does not  *)
(* own falls through to Object.prototype.  The inherited value is a        *)
(* function; of the fields applyCommand reads, it has only `name`.         *)
(* (A key "__proto__" is not among the names of the model.)                *)
(***************************************************************************)
ObjectPrototypeKeys ==
    {"constructor", "hasOwnProperty", "isPrototypeOf", "propertyIsEnumerable",
     "toLocaleString", "toString", "valueOf"}
InheritedFunction(key) ==
    Obj(<<P("name", Str(IF key = "constructor" THEN "Object" ELSE key))>>)

Lookup(o, key) ==
    IF HasKey(o, key) THEN Get(o, key)
    ELSE IF key \in ObjectPrototypeKeys THEN InheritedFunction(key)
    ELSE Undef

\* for (const application of applications) applicationByNames[application.name] = application
RECURSIVE BuildByNames(_, _)
BuildByNames(o, apps) ==
    IF apps = <<>> THEN o
    ELSE BuildByNames(Put(o, Head(apps).kv[CHOOSE j \in 1..Len(Head(apps).kv) :
                                            Head(apps).kv[j].k = "name"].v.s,
                          Head(apps)),
                      Tail(apps))

NameOf(app) == Get(app, "name").s

ApplyInit ==
    /\ pc = "start"
    /\ json \in BOOLEAN
    /\ config \in SeqsUpTo(DeclaredApps, MaxDeclared)
    /\ \E live \in SeqsUpTo(LiveApps, MaxRemote) :
          /\ remote = [j \in 1..Len(live) |-> WithId(live[j], j)]
          /\ nextId = Len(live) + 1
    /\ applications = <<>>
    /\ applicationByNames = Obj(<<>>)
    /\ i = 0
    /\ actions = <<>>
    /\ origin = <<>>
    /\ status = <<>>
    /\ yes = "unset"
    /\ prompts = 0
    /\ listCalls = 0
    /\ calls = <<>>
    /\ a = 0

LifecycleIdle ==
    /\ rules = <<>>
    /\ lpc = <<>>
    /\ lcmd = <<>>
    /\ largs = <<>>
    /\ lrules = <<>>
    /\ lfetched = <<>>
    /\ lerr = <<>>
    /\ lprompts = <<>>
    /\ puts = <<>>

AddIdle ==
    /\ ltty = <<>>
    /\ lnewRule = <<>>
    /\ lselected = <<>>
    /\ lloop = <<>>
    /\ lanswers = <<>>

SortIdle ==
    /\ sortPc = "idle"
    /\ sortArg = Undef
    /\ sortArg0 = Undef
    /\ sortResult = Undef
    /\ sortTwice = Undef

Init == ApplyInit /\ LifecycleIdle /\ AddIdle /\ SortIdle

\* Mutant: the shortcut is never taken.
NoContainerApps_never(cfg) == FALSE

\* config.container_app.length === 0
NoContainerApps(cfg) == Len(cfg) = 0

\* Lines 249-285: the zero-declared shortcut, else listApplications is issued.
Start ==
    /\ pc = "start"
    /\ IF NoContainerApps(config)
       THEN pc' = "done" /\ UNCHANGED listCalls
       ELSE pc' = "list" /\ listCalls' = listCalls + 1
    /\ UNCHANGED <<json, config, remote, nextId, applications, applicationByNames,
                   i, actions, origin, status, yes, prompts, calls, a>>
    /\ UNCHANGED lifecycleVars
    /\ UNCHANGED <<addVars, sortVars>>

\* What listApplications resolves with: the applications the service holds.
listApplications(store) == store

\* Lines 282-303: the listing arrives and the name map is built.
ListReturns ==
    /\ pc = "list"
    /\ applications' = listApplications(remote)
    /\ applicationByNames' = BuildByNames(Obj(<<>>), applications')
    /\ pc' = "diff"
    /\ UNCHANGED <<json, config, remote, nextId, i, actions, origin, status, yes,
                   prompts, listCalls, calls, a>>
    /\ UNCHANGED lifecycleVars
    /\ UNCHANGED <<addVars, sortVars>>

\* listApplications rejects: the rejection leaves applyCommand.
ListFails ==
    /\ pc = "list"
    /\ pc' = "threw"
    /\ UNCHANGED <<json, config, remote, nextId, applications, applicationByNames,
                   i, actions, origin, status, yes, prompts, listCalls, calls, a>>
    /\ UNCHANGED lifecycleVars
    /\ UNCHANGED <<addVars, sortVars>>

CreateAction(appConfig) == [action |-> "create", application |-> appConfig]

\* Mutant: the payload is the normalized entry instead of the declared one.
ModifyAction_sortedPayload(appConfig, application) ==
    [action |-> "modify", application |-> sortObjectDeeply(appConfig),
     id |-> Get(application, "id"), name |-> Get(application, "name")]

ModifyAction(appConfig, application) ==
    [action |-> "modify", application |-> appConfig,
     id |-> Get(application, "id"), name |-> Get(application, "name")]

\* Mutant: unshift instead of push.
Push_front(list, x) == <<x>> \o list

\* actions.push(x)
Push(list, x) == Append(list, x)

\* Lines 308-318: both texts and whether diffLines reports a change.
PrevText(application) ==
    TOMLstringify(Obj(<<P("container_app",
        sortObjectDeeply(stripUndefined(applicationToCreateApplication(application))))>>))
\* Mutant: the declared entry is serialized without the deep sort.
NowText_unsorted(appConfig) ==
    TOMLstringify(Obj(<<P("container_app", appConfig)>>))

NowText(appConfig) ==
    TOMLstringify(Obj(<<P("container_app", sortObjectDeeply(appConfig))>>))
Changes(application, appConfig) ==
    HasChanges(PrevText(application), NowText(appConfig))

\* Lines 305-372: one iteration of the loop over config.container_app.
DiffEntry ==
    /\ pc = "diff"
    /\ i < Len(config)
    /\ LET appConfig == config[i + 1]
           application == Lookup(applicationByNames, NameOf(appConfig))
       IN IF application # Undef /\ application # Null
          THEN IF ~Changes(application, appConfig)
               THEN /\ status' = Append(status, [kind |-> "no changes",
                                                 name |-> Get(application, "name")])
                    /\ UNCHANGED <<actions, origin>>
               ELSE /\ status' = Append(status, [kind |-> "edited",
                                                 name |-> Get(application, "name")])
                    /\ actions' = Push(actions, ModifyAction(appConfig, application))
                    /\ origin' = Push(origin, i + 1)
          ELSE /\ status' = Append(status, [kind |-> "new",
                                            name |-> Get(appConfig, "name")])
               /\ actions' = Push(actions, CreateAction(appConfig))
               /\ origin' = Push(origin, i + 1)
    /\ i' = i + 1
    /\ UNCHANGED <<pc, json, config, remote, nextId, applications, applicationByNames,
                   yes, prompts, listCalls, calls, a>>
    /\ UNCHANGED lifecycleVars
    /\ UNCHANGED <<addVars, sortVars>>

\* Mutant: the answer is ignored.
AfterConfirm_ignored(answer) == "apply"

\* if (!yes) { cancel(...); return; }
AfterConfirm(answer) == IF answer THEN "apply" ELSE "done"

\* processArgument(args, name, promptConfig): an argument that is given is
\* returned as it is, without a prompt; one that is undefined is asked for.
processArgumentAsks(given) == given = Undef

\* Lines 374-387: nothing to do, or the confirmation, which args.json presets.
DiffDone ==
    /\ pc = "diff"
    /\ i = Len(config)
    /\ LET confirm == IF json THEN Bool(TRUE) ELSE Undef
       IN IF Len(actions) = 0
          THEN pc' = "done" /\ UNCHANGED <<yes, prompts>>
          ELSE IF processArgumentAsks(confirm)
               THEN pc' = "confirm" /\ prompts' = prompts + 1 /\ UNCHANGED yes
               ELSE /\ yes' = (IF Truthy(confirm) THEN "yes" ELSE "no")
                    /\ pc' = AfterConfirm(Truthy(confirm))
                    /\ UNCHANGED prompts
    /\ UNCHANGED <<json, config, remote, nextId, applications, applicationByNames,
                   i, actions, origin, status, listCalls, calls, a>>
    /\ UNCHANGED lifecycleVars
    /\ UNCHANGED <<addVars, sortVars>>

\* Lines 379-391: the user answers the prompt.
ConfirmAnswer ==
    /\ pc = "confirm"
    /\ \E answer \in BOOLEAN :
          /\ yes' = (IF answer THEN "yes" ELSE "no")
          /\ pc' = AfterConfirm(answer)
    /\ UNCHANGED <<json, config, remote, nextId, applications, applicationByNames,
                   i, actions, origin, status, prompts, listCalls, calls, a>>
    /\ UNCHANGED lifecycleVars
    /\ UNCHANGED <<addVars, sortVars>>

\* Lines 393-400, 434-443: the call for the next action is issued.
IssueCall ==
    /\ pc = "apply"
    /\ a < Len(actions)
    /\ calls' = Append(calls, [op |-> actions[a + 1].action, idx |-> a + 1,
                               result |-> "pending"])
    /\ pc' = "call"
    /\ UNCHANGED <<json, config, remote, nextId, applications, applicationByNames,
                   i, actions, origin, status, yes, prompts, listCalls, a>>
    /\ UNCHANGED lifecycleVars
    /\ UNCHANGED <<addVars, sortVars>>

\* Lines 429-433, 474-478: the call resolved; the loop continues.
CallSucceeds ==
    /\ pc = "call"
    /\ LET action == actions[a + 1]
       IN IF action.action = "create"
          THEN /\ remote' = RemoteCreate(remote, action.application, nextId)
               /\ nextId' = nextId + 1
          ELSE /\ RemoteHasId(remote, action.id)
               /\ remote' = RemoteModify(remote, action.id, action.application)
               /\ UNCHANGED nextId
    /\ calls' = [calls EXCEPT ![Len(calls)].result = "ok"]
    /\ a' = a + 1
    /\ pc' = "apply"
    /\ UNCHANGED <<json, config, applications, applicationByNames, i, actions, origin,
                   status, yes, prompts, listCalls>>
    /\ UNCHANGED lifecycleVars
    /\ UNCHANGED <<addVars, sortVars>>

\* The errors lines 401-427 and 444-472 tell apart.
ErrorKinds == {"not ApiError", "400 VALIDATE_INPUT", "400 other", "internal error"}

\* crash(message) never returns: the process ends there.
crash == "crashed"

\* Mutant: the failure is reported and the loop goes on with the next action.
AfterFailure_continue(done) == [pc |-> "apply", a |-> done + 1]

\* Where the loop stands after a failed call: each branch of the error
\* handling ends in crash(), none continues or issues the call again.
AfterFailure(done) == [pc |-> crash, a |-> done]

\* Lines 401-427, 444-472: the call rejected; every branch ends in crash().
CallFails ==
    /\ pc = "call"
    /\ \E err \in ErrorKinds :
          calls' = [calls EXCEPT ![Len(calls)].result = err]
    /\ pc' = AfterFailure(a).pc
    /\ a' = AfterFailure(a).a
    /\ UNCHANGED <<json, config, remote, nextId, applications, applicationByNames,
                   i, actions, origin, status, yes, prompts, listCalls>>
    /\ UNCHANGED lifecycleVars
    /\ UNCHANGED <<addVars, sortVars>>

\* Line 482: every action is applied.
ApplyDone ==
    /\ pc = "apply"
    /\ a = Len(actions)
    /\ pc' = "done"
    /\ UNCHANGED <<json, config, remote, nextId, applications, applicationByNames,
                   i, actions, origin, status, yes, prompts, listCalls, calls, a>>
    /\ UNCHANGED lifecycleVars
    /\ UNCHANGED <<addVars, sortVars>>

Next ==
    \/ Start
    \/ ListReturns
    \/ ListFails
    \/ DiffEntry
    \/ DiffDone
    \/ ConfirmAnswer
    \/ IssueCall
    \/ CallSucceeds
    \/ CallFails
    \/ ApplyDone

Spec == Init /\ [][Next]_vars

-----------------------------------------------------------------------------
(***************************************************************************)
(* applyCommand run a second time with the same configuration, once the    *)
(* first run has applied every one of its actions.  The declared names are *)
(* distinct and nothing else writes to the service.                        *)
(***************************************************************************)
DistinctNames(cfg) ==
    \A j, h \in 1..Len(cfg) : j # h => NameOf(cfg[j]) # NameOf(cfg[h])

RerunInit == Init /\ DistinctNames(config)

\* applyCommand is entered again: its locals are fresh, the configuration and
\* the service are as the first run left them.
Rerun ==
    /\ pc = "done"
    /\ listCalls = 1
    /\ a = Len(actions)
    /\ pc' = "start"
    /\ applications' = <<>>
    /\ applicationByNames' = Obj(<<>>)
    /\ i' = 0
    /\ actions' = <<>>
    /\ origin' = <<>>
    /\ status' = <<>>
    /\ yes' = "unset"
    /\ a' = 0
    /\ UNCHANGED <<json, config, remote, nextId, prompts, listCalls, calls>>
    /\ UNCHANGED lifecycleVars
    /\ UNCHANGED <<addVars, sortVars>>

RerunNext == Next \/ Rerun

RerunSpec == RerunInit /\ [][RerunNext]_vars


-----------------------------------------------------------------------------
(***************************************************************************)
(* The lifecycle handlers.  Each invocation of Procs runs one handler      *)
(* against the same bucket; invocations interleave at their awaits.        *)
(***************************************************************************)
Procs == {"p1", "p2"}

LifecycleRuleOf(id, enabled) ==
    Obj(<<P("id", Str(id)), P("enabled", Bool(enabled)), P("conditions", Obj(<<>>))>>)

\* Rules the bucket may hold; two rules may carry the same id.
StoredRules == { LifecycleRuleOf(id, en) : id \in {"a", "b"}, en \in BOOLEAN }

RuleA == LifecycleRuleOf("a", TRUE)

\* The texts of the policy files of the model.
FileTexts == { "{", "null", "5", "{}", "{\"rules\":\"x\"}", "{\"rules\":null}",
               "{\"rules\":[]}", "{\"rules\":[{\"id\":\"a\",\"enabled\":true,\"conditions\":{}}]}" }

\* JSON.parse on those texts; SyntaxError is the thrown error, as a value.
SyntaxError == [t |-> "SyntaxError", s |-> "", n |-> 0, kv |-> <<>>]
JSONparse(text) ==
    CASE text = "null" -> Null
      [] text = "5" -> Num(5)
      [] text = "{}" -> Obj(<<>>)
      [] text = "{\"rules\":\"x\"}" -> Obj(<<P("rules", Str("x"))>>)
      [] text = "{\"rules\":null}" -> Obj(<<P("rules", Null)>>)
      [] text = "{\"rules\":[]}" -> Obj(<<P("rules", Arr(<<>>))>>)
      [] text = "{\"rules\":[{\"id\":\"a\",\"enabled\":true,\"conditions\":{}}]}" ->
            Obj(<<P("rules", Arr(<<RuleA>>))>>)
      [] OTHER -> SyntaxError

\* A file argument: a path that cannot be read, or a readable file and its text.
Files == {[readable |-> FALSE, text |-> ""]}
         \cup { [readable |-> TRUE, text |-> x] : x \in FileTexts }
NoFile == [readable |-> FALSE, text |-> ""]

RemoveArgs == { [id |-> x, file |-> NoFile, force |-> FALSE] : x \in {"a", "b", "c"} }
SetArgs == { [id |-> "", file |-> f, force |-> fo] : f \in Files, fo \in BOOLEAN }

\* The elements of an array value, as a list.
Elements(arr) == [j \in 1..Len(arr.kv) |-> arr.kv[j].v]

ApplyIdle ==
    /\ pc = "idle"
    /\ json = FALSE
    /\ config = <<>>
    /\ remote = <<>>
    /\ nextId = 1
    /\ applications = <<>>
    /\ applicationByNames = Obj(<<>>)
    /\ i = 0
    /\ actions = <<>>
    /\ origin = <<>>
    /\ status = <<>>
    /\ yes = "unset"
    /\ prompts = 0
    /\ listCalls = 0
    /\ calls = <<>>
    /\ a = 0

LifecycleInit ==
    /\ rules \in SeqsUpTo(StoredRules, MaxRules)
    /\ lcmd \in [Procs -> {"remove", "set"}]
    /\ largs \in [Procs -> RemoveArgs \cup SetArgs]
    /\ \A p \in Procs : largs[p] \in (IF lcmd[p] = "remove" THEN RemoveArgs ELSE SetArgs)
    /\ lpc = [p \in Procs |-> "start"]
    /\ lrules = [p \in Procs |-> <<>>]
    /\ lfetched = [p \in Procs |-> <<>>]
    /\ lerr = [p \in Procs |-> "none"]
    /\ lprompts = [p \in Procs |-> 0]
    /\ puts = <<>>

\* What getLifecycleRules returns: the whole list the bucket holds.
getLifecycleRules(stored) == stored

\* What the bucket holds after putLifecycleRules(.., list, ..): that list.
putLifecycleRules(list) == list

\* Mutant: the put takes effect only while the bucket holds what was fetched.
PutLifecycleRules_guarded(p, list) ==
    /\ rules' = IF rules = lfetched[p] THEN putLifecycleRules(list) ELSE rules
    /\ puts' = Append(puts, [proc |-> p, list |-> list])

\* await putLifecycleRules(accountId, bucket, list, jurisdiction)
PutLifecycleRules(p, list) ==
    /\ rules' = putLifecycleRules(list)
    /\ puts' = Append(puts, [proc |-> p, list |-> list])

\* Lines 267-271: RemoveHandler fetches the rules.
RemoveFetch(p) ==
    /\ lcmd[p] = "remove"
    /\ lpc[p] = "start"
    /\ lrules' = [lrules EXCEPT ![p] = getLifecycleRules(rules)]
    /\ lfetched' = [lfetched EXCEPT ![p] = getLifecycleRules(rules)]
    /\ lpc' = [lpc EXCEPT ![p] = "fetched"]
    /\ UNCHANGED <<rules, lcmd, largs, lerr, lprompts, puts>>
    /\ UNCHANGED applyVars
    /\ UNCHANGED <<addVars, sortVars>>

\* Mutant: the last rule with the id instead of the first.
findIndex_last(list, id) ==
    IF \E j \in 1..Len(list) : Get(list[j], "id") = Str(id)
    THEN CHOOSE j \in 1..Len(list) :
            /\ Get(list[j], "id") = Str(id)
            /\ \A h \in (j + 1)..Len(list) : Get(list[h], "id") # Str(id)
    ELSE 0

\* lifecycleRules.findIndex((rule) => rule.id === id), counted from 1; 0 stands
\* for -1.
findIndex(list, id) ==
    IF \E j \in 1..Len(list) : Get(list[j], "id") = Str(id)
    THEN CHOOSE j \in 1..Len(list) :
            /\ Get(list[j], "id") = Str(id)
            /\ \A h \in 1..(j - 1) : Get(list[h], "id") # Str(id)
    ELSE 0

\* lifecycleRules.splice(index, 1); splice(-1, 1) removes the last element.
splice1(list, index) ==
    IF Len(list) = 0 THEN list
    ELSE LET at == IF index = 0 THEN Len(list) ELSE index
         IN [j \in 1..(Len(list) - 1) |-> IF j < at THEN list[j] ELSE list[j + 1]]

\* Mutant: the absent id is not noticed.
NotFound_never(index) == FALSE

\* index === -1
NotFound(index) == index = 0

\* Lines 273-285: find, fail when absent, else splice and put.
RemoveFindAndPut(p) ==
    /\ lcmd[p] = "remove"
    /\ lpc[p] = "fetched"
    /\ LET index == findIndex(lrules[p], largs[p].id)
       IN IF NotFound(index)
          THEN /\ lerr' = [lerr EXCEPT ![p] = "UserError: not found"]
               /\ lpc' = [lpc EXCEPT ![p] = "failed"]
               /\ UNCHANGED <<rules, lrules, puts>>
          ELSE /\ lrules' = [lrules EXCEPT ![p] = splice1(lrules[p], index)]
               /\ PutLifecycleRules(p, lrules'[p])
               /\ lpc' = [lpc EXCEPT ![p] = "done"]
               /\ UNCHANGED lerr
    /\ UNCHANGED <<lcmd, largs, lfetched, lprompts>>
    /\ UNCHANGED applyVars
    /\ UNCHANGED <<addVars, sortVars>>

\* Lines 324-334: JSON.parse(readFileSync(file)); a thrown Error becomes a UserError.
ReadPolicy(file) ==
    IF ~file.readable THEN [thrown |-> "UserError: parse", value |-> Undef]
    ELSE IF JSONparse(file.text) = SyntaxError
         THEN [thrown |-> "UserError: parse", value |-> Undef]
         ELSE [thrown |-> "none", value |-> JSONparse(file.text)]

\* Lines 336-340: reading .rules of null throws a TypeError; a missing, falsy or
\* non-array rules is the UserError.
CheckPolicy(lifecyclePolicy) ==
    IF lifecyclePolicy.t \in {"null", "undefined"} THEN "TypeError"
    ELSE IF ~Truthy(Get(lifecyclePolicy, "rules"))
            \/ Get(lifecyclePolicy, "rules").t # "array"
         THEN "UserError: rules"
         ELSE "none"

\* Mutant: the prompt is skipped whatever force is.
SkipConfirm_always(force) == TRUE

\* if (!force) { ... confirm(...) ... }
SkipConfirm(force) == force

\* Lines 322-359: parse and validate; then the prompt, or with force the put.
SetParse(p) ==
    /\ lcmd[p] = "set"
    /\ lpc[p] = "start"
    /\ LET read == ReadPolicy(largs[p].file)
           thrown == IF read.thrown # "none" THEN read.thrown
                     ELSE CheckPolicy(read.value)
       IN IF thrown # "none"
          THEN /\ lerr' = [lerr EXCEPT ![p] = thrown]
               /\ lpc' = [lpc EXCEPT ![p] = "failed"]
               /\ UNCHANGED <<rules, lrules, lprompts, puts>>
          ELSE /\ lrules' = [lrules EXCEPT ![p] = Elements(Get(read.value, "rules"))]
               /\ UNCHANGED lerr
               /\ IF SkipConfirm(largs[p].force)
                  THEN /\ PutLifecycleRules(p, lrules'[p])
                       /\ lpc' = [lpc EXCEPT ![p] = "done"]
                       /\ UNCHANGED lprompts
                  ELSE /\ lprompts' = [lprompts EXCEPT ![p] = @ + 1]
                       /\ lpc' = [lpc EXCEPT ![p] = "confirm"]
                       /\ UNCHANGED <<rules, puts>>
    /\ UNCHANGED <<lcmd, largs, lfetched>>
    /\ UNCHANGED applyVars
    /\ UNCHANGED <<addVars, sortVars>>

\* Lines 343-359: the prompt is answered; yes puts, no cancels.
SetConfirm(p) ==
    /\ lcmd[p] = "set"
    /\ lpc[p] = "confirm"
    /\ \E confirmedRemoval \in BOOLEAN :
          IF confirmedRemoval
          THEN /\ PutLifecycleRules(p, lrules[p])
               /\ lpc' = [lpc EXCEPT ![p] = "done"]
          ELSE /\ lpc' = [lpc EXCEPT ![p] = "cancelled"]
               /\ UNCHANGED <<rules, puts>>
    /\ UNCHANGED <<lcmd, largs, lrules, lfetched, lerr, lprompts>>
    /\ UNCHANGED applyVars
    /\ UNCHANGED <<addVars, sortVars>>

LifecycleNext ==
    \E p \in Procs :
        \/ RemoveFetch(p)
        \/ RemoveFindAndPut(p)
        \/ SetParse(p)
        \/ SetConfirm(p)

LifecycleStart == ApplyIdle /\ LifecycleInit /\ AddIdle /\ SortIdle

LifecycleSpec == LifecycleStart /\ [][LifecycleNext]_vars

-----------------------------------------------------------------------------
(***************************************************************************)
(* AddHandler.  One invocation: the terminal check, the fetch, then the    *)
(* prompts for id, prefix, actions and one condition per selected action,  *)
(* then the push and the put.  A prompt whose validator rejects the input  *)
(* asks again, so a rejected input leaves the invocation where it is.      *)
(***************************************************************************)
\* JavaScript numbers of the model: NaN, or a number of tenths.
NaN == [nan |-> TRUE, tenths |-> 0]
Tenths(x) == [nan |-> FALSE, tenths |-> x]

\* Number(text) on the condition inputs of the model.
Number(text) ==
    CASE text = "7" -> Tenths(70)
      [] text = "" -> Tenths(0)
      [] text = "-5" -> Tenths(-50)
      [] text = "1.5" -> Tenths(15)
      [] OTHER -> NaN

isNaN(number) == number.nan

\* What the user may type at a condition prompt.
ConditionInputs == { "7", "", "-5", "1.5", "abc", "2025-01-01", "2024-02-29", "2025-02-30" }

\* /^\d{4}-\d{2}-\d{2}$/ on those inputs, and the three numbers of a match.
IsDateForm(text) == text \in { "2025-01-01", "2024-02-29", "2025-02-30" }
DateFields(text) ==
    CASE text = "2025-01-01" -> [year |-> 2025, month |-> 1, day |-> 1]
      [] text = "2024-02-29" -> [year |-> 2024, month |-> 2, day |-> 29]
      [] text = "2025-02-30" -> [year |-> 2025, month |-> 2, day |-> 30]

IsLeapYear(year) == year % 4 = 0 /\ (year % 100 # 0 \/ year % 400 = 0)
DaysInMonth(year, month) ==
    IF month = 2 THEN (IF IsLeapYear(year) THEN 29 ELSE 28)
    ELSE IF month \in {4, 6, 9, 11} THEN 30 ELSE 31

\* isValidDate of ./helpers: a YYYY-MM-DD text that names a day of the calendar.
isValidDate(text) ==
    /\ IsDateForm(text)
    /\ LET f == DateFields(text)
       IN /\ f.month \in 1..12
          /\ f.day \in 1..DaysInMonth(f.year, f.month)

\* The day number since 1970-01-01 of a civil date, and the civil date of a day
\* number (the time value of a Date at UTC midnight, in days).
DaysFromCivil(year, month, day) ==
    LET y == IF month <= 2 THEN year - 1 ELSE year
        era == y \div 400
        yoe == y - era * 400
        mp == IF month > 2 THEN month - 3 ELSE month + 9
        doy == (153 * mp + 2) \div 5 + day - 1
        doe == yoe * 365 + yoe \div 4 - yoe \div 100 + doy
    IN era * 146097 + doe - 719468

CivilFromDays(days) ==
    LET z == days + 719468
        era == z \div 146097
        doe == z - era * 146097
        yoe == (doe - doe \div 1460 + doe \div 36524 - doe \div 146096) \div 365
        doy == doe - (365 * yoe + yoe \div 4 - yoe \div 100)
        mp == (5 * doy + 2) \div 153
        month == IF mp < 10 THEN mp + 3 ELSE mp - 9
    IN [year |-> IF month <= 2 THEN yoe + era * 400 + 1 ELSE yoe + era * 400,
        month |-> month,
        day |-> doy - (153 * mp + 2) \div 5 + 1]

\* new Date(`${conditionInput}T00:00:00.000Z`): the day number of the instant.
NewDate(text) ==
    LET f == DateFields(text) IN DaysFromCivil(f.year, f.month, 1) + f.day - 1

\* date.toISOString() of a Date at UTC midnight.
toISOString(days) ==
    LET f == CivilFromDays(days)
    IN CASE f = [year |-> 2025, month |-> 1, day |-> 1] -> "2025-01-01T00:00:00.000Z"
         [] f = [year |-> 2024, month |-> 2, day |-> 29] -> "2024-02-29T00:00:00.000Z"
         [] f = [year |-> 2025, month |-> 3, day |-> 2] -> "2025-03-02T00:00:00.000Z"
         [] OTHER -> "?"

SecondsPerDay == 86400

\* Mutant: days taken for hours.
DaysToSeconds_hours(number) == (number.tenths * 3600) \div 10

\* Number(conditionInput) * 86400
DaysToSeconds(number) == (number.tenths * SecondsPerDay) \div 10

\* Mutant: the key of the other form.
ConditionKey_flipped(conditionType) == IF conditionType = "Age" THEN "date" ELSE "maxAge"

\* [conditionType === "Age" ? "maxAge" : "date"]
ConditionKey(conditionType) == IF conditionType = "Age" THEN "maxAge" ELSE "date"

\* { [key]: conditionValue, type: conditionType }
ConditionOf(key, conditionType, conditionValue) ==
    Obj(<<P(key, conditionValue), P("type", Str(conditionType))>>)

\* The validators of the two condition prompts: TRUE when the input is accepted.
AcceptsDays(value) == ~isNaN(Number(value))
AcceptsDaysOrDate(value) == ~(isNaN(Number(value)) /\ ~isValidDate(value))

\* Lines 199-208: the type and value of the condition of expire and transition.
Convert(conditionInput) ==
    IF ~isNaN(Number(conditionInput))
    THEN [thrown |-> "none", type |-> "Age",
          value |-> Num(DaysToSeconds(Number(conditionInput)))]
    ELSE IF isValidDate(conditionInput)
         THEN [thrown |-> "none", type |-> "Date",
               value |-> Str(toISOString(NewDate(conditionInput)))]
         ELSE [thrown |-> "UserError: condition", type |-> "", value |-> Undef]

\* Lines 168-226: newRule after the condition input of one action; the thrown
\* error when the input converts to nothing.
WithCondition(newRule, action, conditionInput) ==
    IF action = "abort-multipart"
    THEN [thrown |-> "none",
          rule |-> Put(newRule, "abortMultipartUploadsTransition",
                       Obj(<<P("condition",
                             ConditionOf("maxAge", "Age",
                                         Num(DaysToSeconds(Number(conditionInput)))))>>))]
    ELSE LET c == Convert(conditionInput)
             condition == ConditionOf(ConditionKey(c.type), c.type, c.value)
         IN IF c.thrown # "none" THEN [thrown |-> c.thrown, rule |-> newRule]
            ELSE IF action = "expire"
            THEN [thrown |-> "none",
                  rule |-> Put(newRule, "deleteObjectsTransition",
                               Obj(<<P("condition", condition)>>))]
            ELSE [thrown |-> "none",
                  rule |-> Put(newRule, "storageClassTransitions",
                               Arr(<<Obj(<<P("condition", condition),
                                           P("storageClass", Str("InfrequentAccess"))>>)>>))]

\* The answers of the multiselect: the chosen values in the order of the options.
actionChoices == <<"expire", "transition", "abort-multipart">>
Selections ==
    { SelectSeq(actionChoices, LAMBDA v : v \in chosen) :
        chosen \in SUBSET {"expire", "transition", "abort-multipart"} }

\* The id argument: absent, or the text given on the command line.
AddArgs == { [id |-> x, file |-> NoFile, force |-> FALSE] : x \in {Undef, Str(""), Str("a")} }

\* What the user may type at the id prompt and at the prefix prompt.
IdInputs == {"", "a", "c"}
PrefixInputs == {"", "logs/"}

\* The invocation that runs AddHandler.
Adder == "p1"

AddInit ==
    /\ rules \in SeqsUpTo(StoredRules, MaxRules)
    /\ lcmd = [p \in Procs |-> IF p = Adder THEN "add" ELSE "none"]
    /\ largs \in [Procs -> AddArgs]
    /\ \A p \in Procs \ {Adder} : largs[p].id = Undef
    /\ ltty \in [Procs -> BOOLEAN]
    /\ \A p \in Procs \ {Adder} : ltty[p]
    /\ lpc = [p \in Procs |-> "start"]
    /\ lrules = [p \in Procs |-> <<>>]
    /\ lfetched = [p \in Procs |-> <<>>]
    /\ lerr = [p \in Procs |-> "none"]
    /\ lprompts = [p \in Procs |-> 0]
    /\ puts = <<>>
    /\ lnewRule = [p \in Procs |-> Undef]
    /\ lselected = [p \in Procs |-> <<>>]
    /\ lloop = [p \in Procs |-> 0]
    /\ lanswers = [p \in Procs |-> <<>>]

\* Mutant: the terminal is never asked for.
Interactive_always(isTTY) == TRUE

\* const isInteractive = process.stdin.isTTY
Interactive(isTTY) == isTTY

\* Lines 93-98: without a terminal the handler throws before it fetches.
AddBegin(p) ==
    /\ lcmd[p] = "add"
    /\ lpc[p] = "start"
    /\ IF ~Interactive(ltty[p])
       THEN /\ lerr' = [lerr EXCEPT ![p] = "UserError: non-interactive"]
            /\ lpc' = [lpc EXCEPT ![p] = "failed"]
       ELSE /\ lpc' = [lpc EXCEPT ![p] = "fetching"]
            /\ UNCHANGED lerr
    /\ UNCHANGED <<rules, lcmd, largs, lrules, lfetched, lprompts, puts>>
    /\ UNCHANGED addVars
    /\ UNCHANGED <<applyVars, sortVars>>

\* { id: ruleId, enabled: true, conditions: {} }
NewRule(ruleId) == LifecycleRuleOf(ruleId, TRUE)

\* Lines 100-126: the rules are fetched; a given id makes newRule at once,
\* otherwise the id prompt is shown.
AddFetch(p) ==
    /\ lcmd[p] = "add"
    /\ lpc[p] = "fetching"
    /\ lrules' = [lrules EXCEPT ![p] = getLifecycleRules(rules)]
    /\ lfetched' = [lfetched EXCEPT ![p] = getLifecycleRules(rules)]
    /\ IF largs[p].id # Undef
       THEN /\ lnewRule' = [lnewRule EXCEPT ![p] = NewRule(largs[p].id.s)]
            /\ lpc' = [lpc EXCEPT ![p] = "prefix"]
       ELSE /\ lpc' = [lpc EXCEPT ![p] = "id"]
            /\ UNCHANGED lnewRule
    /\ UNCHANGED <<rules, lcmd, largs, lerr, lprompts, puts>>
    /\ UNCHANGED <<ltty, lselected, lloop, lanswers>>
    /\ UNCHANGED <<applyVars, sortVars>>

\* Lines 108-126: the id prompt is answered; its validator rejects the empty text.
AddId(p) ==
    /\ lcmd[p] = "add"
    /\ lpc[p] = "id"
    /\ \E value \in IdInputs :
          IF Len(value) = 0
          THEN UNCHANGED <<lnewRule, lpc, lprompts>>
          ELSE /\ lnewRule' = [lnewRule EXCEPT ![p] = NewRule(value)]
               /\ lpc' = [lpc EXCEPT ![p] = "prefix"]
               /\ lprompts' = [lprompts EXCEPT ![p] = @ + 1]
    /\ UNCHANGED <<rules, lcmd, largs, lrules, lfetched, lerr, puts>>
    /\ UNCHANGED <<ltty, lselected, lloop, lanswers>>
    /\ UNCHANGED <<applyVars, sortVars>>

\* Lines 128-136: the prefix prompt; an empty prefix sets nothing.
AddPrefix(p) ==
    /\ lcmd[p] = "add"
    /\ lpc[p] = "prefix"
    /\ \E prefix \in PrefixInputs :
          lnewRule' = [lnewRule EXCEPT ![p] =
                         IF Truthy(Str(prefix))
                         THEN Put(@, "conditions", Put(Get(@, "conditions"), "prefix", Str(prefix)))
                         ELSE @]
    /\ lpc' = [lpc EXCEPT ![p] = "actions"]
    /\ lprompts' = [lprompts EXCEPT ![p] = @ + 1]
    /\ UNCHANGED <<rules, lcmd, largs, lrules, lfetched, lerr, puts>>
    /\ UNCHANGED <<ltty, lselected, lloop, lanswers>>
    /\ UNCHANGED <<applyVars, sortVars>>

\* Lines 147-160: the multiselect; its validator rejects the empty selection.
AddSelect(p) ==
    /\ lcmd[p] = "add"
    /\ lpc[p] = "actions"
    /\ \E values \in Selections :
          IF Len(values) = 0
          THEN UNCHANGED <<lselected, lpc, lprompts>>
          ELSE /\ lselected' = [lselected EXCEPT ![p] = values]
               /\ lpc' = [lpc EXCEPT ![p] = "condition"]
               /\ lprompts' = [lprompts EXCEPT ![p] = @ + 1]
    /\ UNCHANGED <<rules, lcmd, largs, lrules, lfetched, lerr, puts>>
    /\ UNCHANGED <<ltty, lnewRule, lloop, lanswers>>
    /\ UNCHANGED <<applyVars, sortVars>>

\* Mutant: the new rule goes to the front.
push_front(list, rule) == <<rule>> \o list

\* lifecycleRules.push(newRule)
push(list, rule) == Append(list, rule)

\* Lines 162-234: the condition prompt of the next selected action is answered.
\* A rejected input asks again; an accepted one sets the transition of the
\* action; after the last action the rule is pushed and the list is put.
AddCondition(p) ==
    /\ lcmd[p] = "add"
    /\ lpc[p] = "condition"
    /\ LET action == lselected[p][lloop[p] + 1]
       IN \E conditionInput \in ConditionInputs :
             LET accepted == IF action = "abort-multipart"
                             THEN AcceptsDays(conditionInput)
                             ELSE AcceptsDaysOrDate(conditionInput)
                 set == WithCondition(lnewRule[p], action, conditionInput)
             IN IF ~accepted
                THEN UNCHANGED <<rules, lrules, lpc, lerr, lprompts, puts, lnewRule, lloop, lanswers>>
                ELSE IF set.thrown # "none"
                THEN /\ lerr' = [lerr EXCEPT ![p] = set.thrown]
                     /\ lpc' = [lpc EXCEPT ![p] = "failed"]
                     /\ lprompts' = [lprompts EXCEPT ![p] = @ + 1]
                     /\ UNCHANGED <<rules, lrules, puts, lnewRule, lloop, lanswers>>
                ELSE /\ lnewRule' = [lnewRule EXCEPT ![p] = set.rule]
                     /\ lloop' = [lloop EXCEPT ![p] = @ + 1]
                     /\ lanswers' = [lanswers EXCEPT ![p] = Append(@, conditionInput)]
                     /\ lprompts' = [lprompts EXCEPT ![p] = @ + 1]
                     /\ UNCHANGED lerr
                     /\ IF lloop'[p] = Len(lselected[p])
                        THEN /\ lrules' = [lrules EXCEPT ![p] = push(@, lnewRule'[p])]
                             /\ PutLifecycleRules(p, lrules'[p])
                             /\ lpc' = [lpc EXCEPT ![p] = "done"]
                        ELSE UNCHANGED <<rules, lrules, lpc, puts>>
    /\ UNCHANGED <<lcmd, largs, lfetched, ltty, lselected>>
    /\ UNCHANGED <<applyVars, sortVars>>

AddNext ==
    \E p \in Procs :
        \/ AddBegin(p)
        \/ AddFetch(p)
        \/ AddId(p)
        \/ AddPrefix(p)
        \/ AddSelect(p)
        \/ AddCondition(p)

AddStart == ApplyIdle /\ AddInit /\ SortIdle

AddSpec == AddStart /\ [][AddNext]_vars

-----------------------------------------------------------------------------
(***************************************************************************)
(* Two invocations against the same bucket: AddHandler next to AddHandler, *)
(* RemoveHandler or SetHandler, interleaved at their awaits.  Both run in  *)
(* a terminal; at the prompts of AddHandler the one action expire and the  *)
(* condition 7 are chosen, and the file of SetHandler holds a rules array. *)
(***************************************************************************)
\* The arguments a command takes.
ArgsOf(cmd) ==
    CASE cmd = "add" -> AddArgs
      [] cmd = "remove" -> RemoveArgs
      [] cmd = "set" ->
            { x \in SetArgs : /\ ReadPolicy(x.file).thrown = "none"
                              /\ CheckPolicy(ReadPolicy(x.file).value) = "none" }

\* The bucket holds enabled rules when the two invocations start.
RaceInit ==
    /\ rules \in SeqsUpTo({ r \in StoredRules : Get(r, "enabled") = Bool(TRUE) }, MaxRules)
    /\ \E cmd \in {"add", "remove", "set"} :
          /\ lcmd = [p \in Procs |-> IF p = Adder THEN "add" ELSE cmd]
          /\ \E first \in AddArgs, second \in ArgsOf(cmd) :
                largs = [p \in Procs |-> IF p = Adder THEN first ELSE second]
    /\ ltty = [p \in Procs |-> TRUE]
    /\ lpc = [p \in Procs |-> "start"]
    /\ lrules = [p \in Procs |-> <<>>]
    /\ lfetched = [p \in Procs |-> <<>>]
    /\ lerr = [p \in Procs |-> "none"]
    /\ lprompts = [p \in Procs |-> 0]
    /\ puts = <<>>
    /\ lnewRule = [p \in Procs |-> Undef]
    /\ lselected = [p \in Procs |-> <<>>]
    /\ lloop = [p \in Procs |-> 0]
    /\ lanswers = [p \in Procs |-> <<>>]

\* What is typed at the multiselect and at the condition prompt.
TypedInRace(p) ==
    /\ lselected[p] \in {<<>>, <<"expire">>}
    /\ lanswers[p] \in {<<>>, <<"7">>}

RaceSelect(p) == AddSelect(p) /\ TypedInRace(p)'

RaceCondition(p) == AddCondition(p) /\ TypedInRace(p)'

RaceNext ==
    \E p \in Procs :
        \/ AddBegin(p)
        \/ AddFetch(p)
        \/ AddId(p)
        \/ AddPrefix(p)
        \/ RaceSelect(p)
        \/ RaceCondition(p)
        \/ RemoveFetch(p)
        \/ RemoveFindAndPut(p)
        \/ SetParse(p)
        \/ SetConfirm(p)

RaceStart == ApplyIdle /\ RaceInit /\ SortIdle

RaceSpec == RaceStart /\ [][RaceNext]_vars


-----------------------------------------------------------------------------
(***************************************************************************)
(* sortObjectDeeply on its own: it is applied to a structure, and then to  *)
(* what it returned.                                                       *)
(***************************************************************************)
MaxElems == 2

\* Structures: scalars and null, objects over two keys in either order, arrays
\* of those, and objects that hold any of them.
Leaves == {Num(1), Str("x"), Null}
ObjsOver(keys, values) ==
    {Obj(<<>>)}
    \cup { Obj(<<P(k, v)>>) : k \in keys, v \in values }
    \cup { Obj(<<P(k[1], v), P(k[2], w)>>) :
             k \in {kk \in keys \X keys : kk[1] # kk[2]}, v \in values, w \in values }
ArraysOf(values) == { Arr(e) : e \in SeqsUpTo(values, MaxElems) }
Elems == Leaves \cup { Obj(<<P("name", Num(1)), P("image", Num(1))>>),
                       Obj(<<P("image", Num(1)), P("name", Num(1))>>) }
Inner == Leaves \cup ObjsOver({"name", "image"}, Leaves) \cup ArraysOf(Elems)
Structures == Inner \cup ObjsOver({"name", "id"}, Inner)

SortInit ==
    /\ sortPc = "start"
    /\ sortArg \in Structures
    /\ sortArg0 = sortArg
    /\ sortResult = Undef
    /\ sortTwice = Undef

\* sortObjectDeeply(x).  It writes to objectCopy and to the array map() makes,
\* never to x.
SortOnce ==
    /\ sortPc = "start"
    /\ sortResult' = sortObjectDeeply(sortArg)
    /\ sortPc' = IF sortResult' = TypeError THEN "threw" ELSE "once"
    /\ UNCHANGED <<sortArg, sortArg0, sortTwice>>
    /\ UNCHANGED <<applyVars, lifecycleVars, addVars>>

\* sortObjectDeeply(sortObjectDeeply(x))
SortAgain ==
    /\ sortPc = "once"
    /\ sortTwice' = sortObjectDeeply(sortResult)
    /\ sortPc' = IF sortTwice' = TypeError THEN "threw" ELSE "twice"
    /\ UNCHANGED <<sortArg, sortArg0, sortResult>>
    /\ UNCHANGED <<applyVars, lifecycleVars, addVars>>

SortNext == SortOnce \/ SortAgain

SortStart == ApplyIdle /\ LifecycleIdle /\ AddIdle /\ SortInit

SortSpec == SortStart /\ [][SortNext]_vars


-----------------------------------------------------------------------------
(***************************************************************************)
(* Properties of applyCommand (checked under Spec).                        *)
(***************************************************************************)

\* The names listApplications returned.
ListedNames == { NameOf(applications[j]) : j \in 1..Len(applications) }

\* The live application a declared name is matched with: the last one listed
\* under that name.
MatchedLive(name) ==
    applications[CHOOSE j \in 1..Len(applications) :
                    /\ NameOf(applications[j]) = name
                    /\ \A h \in (j + 1)..Len(applications) :
                          NameOf(applications[h]) # name]

\* The positions of the action list that declared entry k pushed.
ActionsOf(k) == { n \in 1..Len(actions) : origin[n] = k }

\* Normalized content: undefined-stripped and deep-sorted.
NormalizedLive(application) ==
    sortObjectDeeply(stripUndefined(applicationToCreateApplication(application)))
NormalizedDeclared(appConfig) == sortObjectDeeply(stripUndefined(appConfig))

\* C1: every declared entry whose name matches no listed application pushes
\* exactly one action, tagged "create", whose payload is the entry itself.
C1_CreateForUnmatched ==
    \A k \in 1..i :
        NameOf(config[k]) \notin ListedNames =>
            /\ Cardinality(ActionsOf(k)) = 1
            /\ \A n \in ActionsOf(k) :
                  /\ actions[n].action = "create"
                  /\ actions[n].application = config[k]

\* The same for the names that Object.prototype does not define.
C1_CreateForUnmatchedOwnNames ==
    \A k \in 1..i :
        (/\ NameOf(config[k]) \notin ListedNames
         /\ NameOf(config[k]) \notin ObjectPrototypeKeys) =>
            /\ Cardinality(ActionsOf(k)) = 1
            /\ \A n \in ActionsOf(k) :
                  actions[n] = [action |-> "create", application |-> config[k]]

\* An unmatched entry named like a key of Object.prototype has been diffed.
C1_InheritedNameDiffed ==
    \E k \in 1..i :
        /\ NameOf(config[k]) \notin ListedNames
        /\ NameOf(config[k]) \in ObjectPrototypeKeys

C3_NoActionWhenIdentical ==
    \A k \in 1..i :
        (/\ NameOf(config[k]) \in ListedNames
         /\ NormalizedDeclared(config[k])
               = NormalizedLive(MatchedLive(NameOf(config[k])))) =>
            /\ ActionsOf(k) = {}
            /\ status[k] = [kind |-> "no changes", name |-> Get(config[k], "name")]

\* An identical pair whose declared entry lists its keys unsorted, or holds an
\* undefined-valued key, has been diffed.
C3_Witness ==
    \E k \in 1..i :
        /\ NameOf(config[k]) \in ListedNames
        /\ NormalizedDeclared(config[k]) = NormalizedLive(MatchedLive(NameOf(config[k])))
        /\ config[k] # NormalizedDeclared(config[k])
        /\ status[k].kind = "no changes"

\* C4: the action list is ordered like the declared configuration, and every
\* declared entry pushes at most one action.
C4_ActionsInDeclaredOrder ==
    /\ Len(origin) = Len(actions)
    /\ \A m, n \in 1..Len(actions) : m < n => origin[m] < origin[n]
    /\ \A n \in 1..Len(actions) :
          /\ origin[n] \in 1..i
          /\ actions[n].application = config[origin[n]]

C4_Witness ==
    /\ Len(actions) = 2
    /\ actions[1].action # actions[2].action
    /\ pc = "apply"

\* C5: with no declared entry, no listing call, no create or modify call and
\* no prompt is ever issued, whatever the remote holds.
C5_EmptyConfigNoRemoteCall ==
    Len(config) = 0 =>
        /\ listCalls = 0
        /\ calls = <<>>
        /\ prompts = 0
        /\ pc \in {"start", "done"}

C5_Witness ==
    /\ Len(config) = 0
    /\ Len(remote) > 0
    /\ pc = "done"

\* C6: a create or modify call is issued only with a non-empty action list
\* and a confirmation that returned yes (json answers yes without a prompt);
\* after a declined confirmation the command has ended with no call issued.
C6_NoCallWithoutConfirmation ==
    /\ calls # <<>> =>
          /\ Len(actions) > 0
          /\ yes = "yes"
          /\ prompts = (IF json THEN 0 ELSE 1)
    /\ json => prompts = 0
    /\ yes = "no" => (calls = <<>> /\ pc = "done" /\ remote = applications)

C6_Witness ==
    /\ yes = "no"
    /\ prompts = 1
    /\ Len(actions) > 0
    /\ pc = "done"

\* The remote store after the first n actions were applied to the listing.
RECURSIVE Replay(_, _, _)
Replay(store, n, id) ==
    IF n = 0 THEN store
    ELSE LET before == Replay(store, n - 1, id)
             action == actions[n]
             created == Cardinality({ m \in 1..(n - 1) : actions[m].action = "create" })
         IN IF action.action = "create"
            THEN RemoteCreate(before, action.application, id + created)
            ELSE RemoteModify(before, action.id, action.application)

\* C7: calls are issued in action-list order, one at a time; when the call of
\* action N fails, the calls of actions 1..N-1 have each succeeded once and
\* their effect stays, the failed call is not issued again, and no call of a
\* later action is issued.
C7_SequentialFailFast ==
    /\ \A k \in 1..Len(calls) :
          /\ calls[k].idx = k
          /\ calls[k].op = actions[k].action
          /\ k < Len(calls) => calls[k].result = "ok"
          /\ calls[k].result = "pending" => (k = Len(calls) /\ pc = "call")
          /\ calls[k].result \in ErrorKinds => (k = Len(calls) /\ pc = "crashed")
    /\ pc = "crashed" =>
          /\ calls # <<>>
          /\ calls[Len(calls)].result \in ErrorKinds
          /\ remote = Replay(applications, Len(calls) - 1, Len(applications) + 1)
    /\ (pc \in {"apply", "call"} \/ (pc = "done" /\ listCalls > 0)) =>
          remote = Replay(applications, a, Len(applications) + 1)

C7_Witness ==
    /\ pc = "crashed"
    /\ Len(calls) = 1
    /\ Len(actions) = 2


-----------------------------------------------------------------------------
(***************************************************************************)
(* Properties of the lifecycle handlers (checked under LifecycleSpec).     *)
(***************************************************************************)

\* The putLifecycleRules calls of invocation p, in order.
PutsOf(p) == SelectSeq(puts, LAMBDA e : e.proc = p)

\* Whether a rule of the list carries the id.
HasRuleId(list, id) == \E j \in 1..Len(list) : Get(list[j], "id") = Str(id)

\* list without its k-th element.
Without(list, k) == SubSeq(list, 1, k - 1) \o SubSeq(list, k + 1, Len(list))

\* C8: when the fetched list holds a rule with the given id, RemoveHandler
\* issues a single put, of the fetched list without the first rule of that id;
\* the other rules are there, unchanged and in order.
C8_RemoveWritesListWithoutFirstMatch ==
    \A p \in Procs :
        (/\ lcmd[p] = "remove"
         /\ lpc[p] \in {"done", "failed"}
         /\ HasRuleId(lfetched[p], largs[p].id)) =>
            /\ lpc[p] = "done"
            /\ Len(PutsOf(p)) = 1
            /\ \E k \in 1..Len(lfetched[p]) :
                  /\ Get(lfetched[p][k], "id") = Str(largs[p].id)
                  /\ \A h \in 1..(k - 1) : Get(lfetched[p][h], "id") # Str(largs[p].id)
                  /\ PutsOf(p)[1].list = Without(lfetched[p], k)

\* Two rules share the id and differ; the removal has been written.
C8_Witness ==
    \E p \in Procs :
        /\ lcmd[p] = "remove"
        /\ lpc[p] = "done"
        /\ Len(lfetched[p]) = 2
        /\ Get(lfetched[p][1], "id") = Get(lfetched[p][2], "id")
        /\ lfetched[p][1] # lfetched[p][2]
        /\ Len(PutsOf(p)) = 1

\* C9: when no fetched rule has the given id, RemoveHandler ends with the
\* not-found user error and issues no put: it leaves the remote list as it is.
C9_RemoveAbsentIdNoWrite ==
    \A p \in Procs :
        (/\ lcmd[p] = "remove"
         /\ lpc[p] \notin {"start", "fetched"}
         /\ ~HasRuleId(lfetched[p], largs[p].id)) =>
            /\ lpc[p] = "failed"
            /\ lerr[p] = "UserError: not found"
            /\ PutsOf(p) = <<>>
            /\ puts = <<>> => rules = lfetched[p]

C9_Witness ==
    \E p \in Procs :
        /\ lcmd[p] = "remove"
        /\ lpc[p] = "failed"
        /\ Len(lfetched[p]) > 0
        /\ ~HasRuleId(lfetched[p], largs[p].id)

\* A file that cannot be parsed, or whose content has no rules array.
NoRulesArray(file) ==
    \/ ~file.readable
    \/ JSONparse(file.text) = SyntaxError
    \/ JSONparse(file.text).t # "object"
    \/ Get(JSONparse(file.text), "rules").t # "array"

\* C10: given a file that cannot be parsed or has no rules array, SetHandler
\* raises a validation user error before any prompt and any write; it never
\* calls putLifecycleRules.
C10_InvalidFileIsUserError ==
    \A p \in Procs :
        (/\ lcmd[p] = "set"
         /\ lpc[p] # "start"
         /\ NoRulesArray(largs[p].file)) =>
            /\ lpc[p] = "failed"
            /\ lerr[p] \in {"UserError: parse", "UserError: rules"}
            /\ lprompts[p] = 0
            /\ PutsOf(p) = <<>>

\* What holds of every such file: the run fails with no prompt and no write.
InvalidFileNoPromptNoWrite ==
    \A p \in Procs :
        (/\ lcmd[p] = "set"
         /\ lpc[p] # "start"
         /\ NoRulesArray(largs[p].file)) =>
            /\ lpc[p] = "failed"
            /\ lerr[p] # "none"
            /\ lprompts[p] = 0
            /\ PutsOf(p) = <<>>


\* The rules array of a policy file that has one.
FileRules(file) == Elements(Get(JSONparse(file.text), "rules"))

\* C11: with a valid file, force writes the file's rules without a prompt;
\* without force the prompt comes before the write, and the write of the whole
\* list (the file's rules, replacing the remote list) happens only on a yes:
\* a declined prompt ends the command with no write.
C11_SetPromptsUnlessForced ==
    /\ \A p \in Procs :
          (/\ lcmd[p] = "set"
           /\ lpc[p] # "start"
           /\ ~NoRulesArray(largs[p].file)) =>
              /\ lerr[p] = "none"
              /\ IF largs[p].force
                 THEN /\ lprompts[p] = 0
                      /\ lpc[p] = "done"
                 ELSE /\ lprompts[p] = 1
                      /\ lpc[p] \in {"confirm", "done", "cancelled"}
              /\ lpc[p] \in {"confirm", "cancelled"} => PutsOf(p) = <<>>
              /\ lpc[p] = "done" =>
                    PutsOf(p) = <<[proc |-> p, list |-> FileRules(largs[p].file)]>>
    /\ (puts # <<>> /\ lcmd[puts[Len(puts)].proc] = "set") =>
          rules = FileRules(largs[puts[Len(puts)].proc].file)

\* A set without force was confirmed and has replaced a different remote list.
C11_Witness ==
    \E p \in Procs :
        /\ lcmd[p] = "set"
        /\ ~largs[p].force
        /\ lpc[p] = "done"
        /\ lprompts[p] = 1
        /\ Len(puts) = 1
        /\ rules = FileRules(largs[p].file)
        /\ Len(rules) = 1
        /\ \E q \in Procs : lcmd[q] = "set" /\ lpc[q] = "cancelled"


-----------------------------------------------------------------------------
(***************************************************************************)
(* AddHandler: the claims.                                                 *)
(***************************************************************************)
\* The condition a rule carries for an action.
ConditionFor(rule, action) ==
    CASE action = "expire" -> Get(Get(rule, "deleteObjectsTransition"), "condition")
      [] action = "transition" ->
            Get(Elements(Get(rule, "storageClassTransitions"))[1], "condition")
      [] action = "abort-multipart" ->
            Get(Get(rule, "abortMultipartUploadsTransition"), "condition")

\* The seconds of the day counts and the timestamps of the dates a user may type.
DayCountTexts == {"7", "-5", "1.5"}
ExpectedSeconds(text) ==
    CASE text = "7" -> 604800
      [] text = "-5" -> 0 - 432000
      [] text = "1.5" -> 129600
DateTexts == {"2025-01-01", "2024-02-29"}
ExpectedDate(text) ==
    CASE text = "2025-01-01" -> "2025-01-01T00:00:00.000Z"
      [] text = "2024-02-29" -> "2024-02-29T00:00:00.000Z"

\* C12: an accepted day count d is stored as maxAge = d * 86400 and an accepted
\* date YYYY-MM-DD as date = "YYYY-MM-DDT00:00:00.000Z", for every action that
\* got its condition.
C12_ConditionConversion ==
    \A p \in Procs :
        lcmd[p] = "add" =>
           \A j \in 1..lloop[p] :
              LET condition == ConditionFor(lnewRule[p], lselected[p][j])
                  input == lanswers[p][j]
              IN /\ input \in DayCountTexts =>
                       Get(condition, "maxAge") = Num(ExpectedSeconds(input))
                 /\ input \in DateTexts =>
                       Get(condition, "date") = Str(ExpectedDate(input))

C12_Witness ==
    \E p \in Procs :
        /\ lcmd[p] = "add" /\ lpc[p] = "done"
        /\ lselected[p] = <<"expire", "transition">>
        /\ lanswers[p] = <<"7", "2025-01-01">>
        /\ Get(ConditionFor(lnewRule[p], "expire"), "maxAge") = Num(604800)
        /\ Get(ConditionFor(lnewRule[p], "transition"), "date")
              = Str("2025-01-01T00:00:00.000Z")

\* C13: AddHandler writes once, after the last prompt is answered, and what it
\* writes is the list it fetched, unchanged and in order, with the new rule last.
C13_AddAppendsOnce ==
    \A p \in Procs :
        lcmd[p] = "add" =>
           /\ lpc[p] # "done" => PutsOf(p) = <<>>
           /\ lpc[p] = "done" =>
                 /\ lloop[p] = Len(lselected[p])
                 /\ PutsOf(p) = <<[proc |-> p, list |-> lfetched[p] \o <<lnewRule[p]>>]>>
                 /\ rules = lfetched[p] \o <<lnewRule[p]>>

C13_Witness ==
    \E p \in Procs :
        /\ lcmd[p] = "add" /\ lpc[p] = "done"
        /\ Len(lfetched[p]) = 2
        /\ Len(puts) = 1
        /\ SubSeq(puts[1].list, 1, 2) = lfetched[p]
        /\ Get(puts[1].list[3], "id") = Str("c")
        /\ lprompts[p] = 5

\* C14: without a terminal AddHandler ends with the non-interactive user error,
\* whether or not the id was given, and neither prompts nor writes.
C14_NonInteractiveRefused ==
    \A p \in Procs :
        (lcmd[p] = "add" /\ ~ltty[p] /\ lpc[p] # "start") =>
           /\ lpc[p] = "failed"
           /\ lerr[p] = "UserError: non-interactive"
           /\ lprompts[p] = 0
           /\ PutsOf(p) = <<>>

C14_Witness ==
    \E p \in Procs :
        /\ lcmd[p] = "add" /\ ~ltty[p] /\ largs[p].id = Undef
        /\ lpc[p] = "failed" /\ lerr[p] = "UserError: non-interactive"
        /\ rules # <<>> /\ puts = <<>>

\* No two rules of the list carry the same id.
UniqueIds(list) ==
    \A j, h \in 1..Len(list) : j # h => Get(list[j], "id") # Get(list[h], "id")

\* C15: starting from a fetched list with unique ids, every list AddHandler
\* writes has pairwise distinct ids.
C15_WrittenIdsDistinct ==
    \A p \in Procs :
        (lcmd[p] = "add" /\ UniqueIds(lfetched[p])) =>
           \A k \in 1..Len(PutsOf(p)) : UniqueIds(PutsOf(p)[k].list)

\* The run that writes an id twice: the bucket holds one rule "a", and "a" is
\* given again.
C15_DuplicateIdWritten ==
    \E p \in Procs :
        /\ lcmd[p] = "add" /\ lpc[p] = "done"
        /\ Len(lfetched[p]) = 1 /\ Get(lfetched[p][1], "id") = Str("a")
        /\ Len(puts) = 1 /\ Len(puts[1].list) = 2
        /\ Get(puts[1].list[1], "id") = Str("a")
        /\ Get(puts[1].list[2], "id") = Str("a")

\* The rule an invocation of AddHandler wrote: the last of the list it put.
WrittenRule(p) == PutsOf(p)[1].list[Len(PutsOf(p)[1].list)]

\* C16: the id of the rule AddHandler writes is a non-empty string, given as an
\* argument or typed at the prompt.
C16_WrittenIdNonEmpty ==
    \A p \in Procs :
        (lcmd[p] = "add" /\ lpc[p] = "done") =>
           /\ Get(WrittenRule(p), "id").t = "string"
           /\ Get(WrittenRule(p), "id") # Str("")

\* The part of C16 that holds: an id typed at the prompt is never empty.
PromptedIdNonEmpty ==
    \A p \in Procs :
        (lcmd[p] = "add" /\ lpc[p] = "done" /\ largs[p].id = Undef) =>
           Get(WrittenRule(p), "id") # Str("")

\* The run that writes the empty id: it is given as the argument.
C16_EmptyIdWritten ==
    \E p \in Procs :
        /\ lcmd[p] = "add" /\ lpc[p] = "done"
        /\ largs[p].id = Str("")
        /\ Get(WrittenRule(p), "id") = Str("")
        /\ rules = lfetched[p] \o <<WrittenRule(p)>>

\* The inputs that are a non-negative integer number of days.
NonNegativeIntegerTexts == {"7"}

\* C17: every accepted day count is a non-negative integer, every maxAge
\* written a non-negative multiple of 86400; any other input, unless a valid
\* date where dates are allowed, is rejected and reaches no rule.
C17_DayCountsNonNegativeIntegers ==
    \A p \in Procs :
        lcmd[p] = "add" =>
           \A j \in 1..lloop[p] :
              LET condition == ConditionFor(lnewRule[p], lselected[p][j])
              IN /\ lanswers[p][j] \in NonNegativeIntegerTexts
                    \/ (lselected[p][j] # "abort-multipart" /\ lanswers[p][j] \in DateTexts)
                 /\ HasKey(condition, "maxAge") =>
                       /\ Get(condition, "maxAge").n >= 0
                       /\ Get(condition, "maxAge").n % 86400 = 0

\* The run that writes a negative maxAge: -5 typed at the expire prompt.
C17_NegativeDaysWritten ==
    \E p \in Procs :
        /\ lcmd[p] = "add" /\ lpc[p] = "done"
        /\ lselected[p] = <<"expire">> /\ lanswers[p] = <<"-5">>
        /\ Get(ConditionFor(WrittenRule(p), "expire"), "maxAge") = Num(0 - 432000)

\* The field of a rule that holds the transition of an action, and how many
\* properties of an object carry a key.
TransitionField(action) ==
    CASE action = "expire" -> "deleteObjectsTransition"
      [] action = "transition" -> "storageClassTransitions"
      [] action = "abort-multipart" -> "abortMultipartUploadsTransition"
CountKey(o, key) == Cardinality({ j \in 1..Len(o.kv) : o.kv[j].k = key })

\* The keys of an object.
KeysOf(o) == { o.kv[j].k : j \in 1..Len(o.kv) }

\* C18: in the written rule each selected action has one transition entry
\* whose condition holds maxAge with type "Age" when days were typed and date
\* with type "Date" when a date was typed, never both; abort-multipart is
\* always "Age" with maxAge; an action not selected has no entry.
C18_OneConditionPerSelectedAction ==
    \A p \in Procs :
        (lcmd[p] = "add" /\ lpc[p] = "done") =>
           /\ WrittenRule(p) = lnewRule[p]
           /\ \A j \in 1..Len(lselected[p]) :
                 LET action == lselected[p][j]
                     condition == ConditionFor(WrittenRule(p), action)
                     typed == IF lanswers[p][j] \in DateTexts THEN "Date" ELSE "Age"
                 IN /\ CountKey(WrittenRule(p), TransitionField(action)) = 1
                    /\ action = "transition" =>
                          Len(Elements(Get(WrittenRule(p), "storageClassTransitions"))) = 1
                    /\ Get(condition, "type") = Str(typed)
                    /\ KeysOf(condition) = (IF typed = "Age" THEN {"maxAge", "type"}
                                            ELSE {"date", "type"})
                    /\ Len(condition.kv) = 2
                    /\ action = "abort-multipart" => typed = "Age"
           /\ \A action \in {"expire", "transition", "abort-multipart"} :
                 (\A j \in 1..Len(lselected[p]) : lselected[p][j] # action) =>
                    ~HasKey(WrittenRule(p), TransitionField(action))

C18_Witness ==
    \E p \in Procs :
        /\ lcmd[p] = "add" /\ lpc[p] = "done"
        /\ lselected[p] = <<"expire", "abort-multipart">>
        /\ lanswers[p] = <<"2024-02-29", "7">>
        /\ KeysOf(ConditionFor(WrittenRule(p), "expire")) = {"date", "type"}
        /\ KeysOf(ConditionFor(WrittenRule(p), "abort-multipart")) = {"maxAge", "type"}
        /\ ~HasKey(WrittenRule(p), "storageClassTransitions")

-----------------------------------------------------------------------------
(***************************************************************************)
(* Normalization: the claims.                                              *)
(***************************************************************************)
\* A structure without its undefined-valued keys, at every nesting level.
RECURSIVE DeepStrip(_)
DeepStrip(x) ==
    CASE x.t = "object" ->
            LET kept == SelectSeq(x.kv, LAMBDA e : e.v.t # "undefined")
            IN Obj([j \in 1..Len(kept) |-> P(kept[j].k, DeepStrip(kept[j].v))])
      [] x.t = "array" ->
            Arr([j \in 1..Len(x.kv) |-> DeepStrip(x.kv[j].v)])
      [] OTHER -> x

\* What is left of a structure when key order and undefined-valued keys are
\* set aside.
Canonical(x) == sortObjectDeeply(DeepStrip(x))

\* The declared entry k and the live application it matches differ in nothing
\* but key order and undefined-valued keys.
AlikeUpToOrderAndUndefined(k) ==
    /\ NameOf(config[k]) \in ListedNames
    /\ Canonical(config[k])
          = Canonical(applicationToCreateApplication(MatchedLive(NameOf(config[k]))))

\* C19: a declared entry and a live application that differ only in key order
\* or in undefined-valued keys compare as "no changes" and push no action.
C19_AlikeCompareAsNoChanges ==
    \A k \in 1..i :
        AlikeUpToOrderAndUndefined(k) =>
           /\ status[k].kind = "no changes"
           /\ ActionsOf(k) = {}

\* The pair that compares as edited: the declared configuration holds one key,
\* whose value is undefined, and the live configuration is empty.
C19_UndefinedInsideTableEdited ==
    \E k \in 1..i :
        /\ AlikeUpToOrderAndUndefined(k)
        /\ Get(config[k], "configuration") = Obj(<<P("image", Undef)>>)
        /\ Get(MatchedLive(NameOf(config[k])), "configuration") = Obj(<<>>)
        /\ status[k].kind = "edited"
        /\ \E n \in ActionsOf(k) : actions[n].action = "modify"

\* Two structures are the same but for the order of their keys: arrays agree in
\* length and position by position, objects in their keys and key by key.
RECURSIVE SameUpToKeyOrder(_, _)
SameUpToKeyOrder(x, y) ==
    CASE x.t = "array" ->
            /\ y.t = "array"
            /\ Len(y.kv) = Len(x.kv)
            /\ \A j \in 1..Len(x.kv) : SameUpToKeyOrder(x.kv[j].v, y.kv[j].v)
      [] x.t = "object" ->
            /\ y.t = "object"
            /\ Len(y.kv) = Len(x.kv)
            /\ KeysOf(y) = KeysOf(x)
            /\ \A key \in KeysOf(x) : SameUpToKeyOrder(Get(x, key), Get(y, key))
      [] OTHER -> y = x

\* The laws of C20 on one structure, once sortObjectDeeply has returned.
SortLaws ==
    /\ sortArg = sortArg0
    /\ SameUpToKeyOrder(sortArg0, sortResult)
    /\ sortPc = "twice" => sortTwice = sortResult

\* C20: for every structure x, sortObjectDeeply(x) leaves x as it was and keeps
\* every array's length and element order, and sortObjectDeeply applied to the
\* result returns the result, key order included.
C20_SortIdempotentArraysKept ==
    sortPc \in {"once", "twice", "threw"} =>
       /\ sortPc # "threw"
       /\ SortLaws

\* The part of C20 that holds: on the structures where it returns.
SortLawsWhereItReturns == sortPc \in {"once", "twice"} => SortLaws

\* The structure without a result: null is an element of an array.
C20_NullInArrayThrows ==
    /\ sortPc = "threw"
    /\ sortArg0 = Obj(<<P("name", Arr(<<Null>>))>>)
    /\ sortResult = TypeError

-----------------------------------------------------------------------------
(***************************************************************************)
(* Concurrent invocations of the lifecycle handlers: the claims.           *)
(***************************************************************************)
\* The list an invocation writes when the bucket held `fetched` as it read it:
\* add appends its rule, remove drops the first rule with its id, set takes
\* the rules of its file.
EffectOn(p, fetched) ==
    CASE lcmd[p] = "add" -> fetched \o <<lnewRule[p]>>
      [] lcmd[p] = "remove" ->
            Without(fetched,
                    CHOOSE k \in 1..Len(fetched) :
                       /\ Get(fetched[k], "id") = Str(largs[p].id)
                       /\ \A h \in 1..(k - 1) : Get(fetched[h], "id") # Str(largs[p].id))
      [] lcmd[p] = "set" -> FileRules(largs[p].file)

\* C21: nothing guards the fetch-mutate-put of two invocations.  Every put
\* carries the list made from the invocation's own fetch, whatever was written
\* since, and replaces what the bucket holds; an add never fails and a remove
\* fails only when its own fetch lacks the id, so no invocation notices.
C21_PutsUnguarded ==
    /\ \A k \in 1..Len(puts) :
          puts[k].list = EffectOn(puts[k].proc, lfetched[puts[k].proc])
    /\ puts # <<>> => rules = puts[Len(puts)].list
    /\ \A p \in Procs :
          /\ lcmd[p] = "add" => lerr[p] = "none"
          /\ (lcmd[p] = "remove" /\ lpc[p] = "failed") =>
                ~HasRuleId(lfetched[p], largs[p].id)
          /\ (lcmd[p] = "remove" /\ lpc[p] = "done") => lerr[p] = "none"

\* Two adds fetch the same list before either writes; both finish without an
\* error, and the bucket ends with the later rule and without the earlier one.
C21_Witness ==
    \E e \in Procs, l \in Procs :
        /\ e # l
        /\ lcmd[e] = "add" /\ lcmd[l] = "add"
        /\ lpc[e] = "done" /\ lpc[l] = "done"
        /\ lerr[e] = "none" /\ lerr[l] = "none"
        /\ lfetched[e] = <<LifecycleRuleOf("b", TRUE)>>
        /\ lfetched[l] = lfetched[e]
        /\ Len(puts) = 2 /\ puts[1].proc = e /\ puts[2].proc = l
        /\ HasRuleId(puts[1].list, "a")
        /\ rules = puts[2].list
        /\ HasRuleId(rules, "b") /\ HasRuleId(rules, "c") /\ ~HasRuleId(rules, "a")

\* The same between an add and a remove: the remove writes last, from the list
\* it fetched before the add wrote, and the added rule is gone.
AddLostToRemove ==
    \E e \in Procs, l \in Procs :
        /\ lcmd[e] = "add" /\ lcmd[l] = "remove"
        /\ lpc[e] = "done" /\ lpc[l] = "done"
        /\ lfetched[l] = lfetched[e]
        /\ Len(puts) = 2 /\ puts[1].proc = e /\ puts[2].proc = l
        /\ HasRuleId(puts[1].list, "c") /\ ~HasRuleId(rules, "c")

\* And between an add and a set: the add writes last, from the list it fetched
\* before the set wrote, and the rules of the file are gone.
SetLostToAdd ==
    \E e \in Procs, l \in Procs :
        /\ lcmd[e] = "set" /\ lcmd[l] = "add"
        /\ lpc[e] = "done" /\ lpc[l] = "done"
        /\ lfetched[l] = <<>>
        /\ Len(puts) = 2 /\ puts[1].proc = e /\ puts[2].proc = l
        /\ puts[1].list = <<RuleA>>
        /\ Get(lnewRule[l], "id") = Str("c")
        /\ rules = <<lnewRule[l]>>

-----------------------------------------------------------------------------
(***************************************************************************)
(* The second run of applyCommand: the claims.                             *)
(***************************************************************************)
\* C22: after a run that applied every action, a second run with the same
\* configuration computes no action and gets to no call, whatever the
\* configuration declares.
C22_SecondRunEmpty ==
    listCalls = 2 =>
       /\ actions = <<>>
       /\ pc \in {"list", "threw", "diff", "done"}

\* An entry without jobs = false and without an undefined-valued key inside its
\* configuration.
PlainEntry(appConfig) ==
    /\ Get(appConfig, "jobs") # Bool(FALSE)
    /\ DeepStrip(Get(appConfig, "configuration")) = Get(appConfig, "configuration")

\* The part of C22 that holds: configurations of such entries converge.
SecondRunEmptyForPlainEntries ==
    (listCalls = 2 /\ \A k \in 1..Len(config) : PlainEntry(config[k])) =>
       /\ actions = <<>>
       /\ pc \in {"list", "threw", "diff", "done"}

\* The second run that does not come out empty: the one declared entry has
\* jobs = false, the first run created it, the second run finds it edited and
\* sends a modify call.
C22_JobsFalseEditedAgain ==
    /\ listCalls = 2
    /\ config = <<Obj(<<P("name", Str("b")), P("instances", Num(1)), P("jobs", Bool(FALSE))>>)>>
    /\ Len(calls) = 2
    /\ calls[1].op = "create" /\ calls[1].result = "ok"
    /\ status = <<[kind |-> "edited", name |-> Str("b")]>>
    /\ Len(actions) = 1 /\ actions[1].action = "modify"
    /\ calls[2].op = "modify"

=============================================================================
